---- MODULE Spec2Model ----
(***************************************************************************)
(* Model of the conversation store of src/chat_board.py: the classes       *)
(* Message, Conversation and ChatBoard, and the JSON file ChatBoard keeps. *)
(*                                                                         *)
(* Time: datetime.now().strftime(...) yields the text of the current       *)
(* second.  The text is only ever stored and compared for equality, never  *)
(* parsed back, so a timestamp is modelled by the number of its second     *)
(* (clock, >= 1); the number 0 stands for the empty text "", the one       *)
(* falsy timestamp a stored file can carry (Message.__init__ replaces a    *)
(* falsy timestamp by the current time).                                   *)
(*                                                                         *)
(* Writes: in Spec every open(...,'w')/json.dump succeeds.                 *)
(***************************************************************************)
EXTENDS Integers, Sequences, FiniteSets, TLC

VARIABLES
    file,                   \* content of storage_file on disk
    conversations,          \* ChatBoard.conversations
    next_conversation_id,   \* ChatBoard.next_conversation_id
    current_user,           \* ChatBoard.current_user
    construction,           \* how the last ChatBoard.__init__ ended
    clock,                  \* the current second (datetime.now())
    ret,                    \* what the last call on the store returned
    issued,                 \* history: ids returned by create_conversation
    written                 \* history: save_data has written the file

vars == <<file, conversations, next_conversation_id, current_user,
          construction, clock, ret, issued, written>>

----------------------------------------------------------------------------
(* Bounds of the model *)

MaxId == 2          \* create_conversation is explored while the counter <= MaxId
MaxMsgs == 2        \* post_message is explored while the store holds fewer messages

Titles == {"a"}
Usernames == {"", "alice"}
Contents == {"", "hi"}
Seconds == {1, 2}      \* the seconds the clock shows during a run
Ids == 1 .. MaxId

\* Optional[str] = None of current_user (line 80)
None == "<None>"

----------------------------------------------------------------------------
(* Message and Conversation, and their dictionary forms *)

MsgKeys == {"author", "content", "timestamp"}
ConvKeys == {"title", "conversation_id", "created_at", "messages"}
TopKeys == {"conversations", "next_conversation_id"}

\* Message.__init__: timestamp or now
Message(author, content, timestamp, now) ==
    [author |-> author, content |-> content,
     timestamp |-> IF timestamp = 0 THEN now ELSE timestamp]

\* Message.to_dict
Message_to_dict(m) ==
    [isdict |-> TRUE, keys |-> MsgKeys,
     author |-> m.author, content |-> m.content, timestamp |-> m.timestamp]

\* Message.from_dict
Message_from_dict(d, now) == Message(d.author, d.content, d.timestamp, now)

\* Conversation.__init__
Conversation(title, conversation_id, now) ==
    [title |-> title, conversation_id |-> conversation_id,
     messages |-> <<>>, created_at |-> now]

\* add_message with insert(0, message) for append(message)
add_message_Prepends(conv, message) ==
    [conv EXCEPT !.messages = <<message>> \o @]

\* Conversation.add_message
add_message(conv, message) ==
    [conv EXCEPT !.messages = Append(@, message)]

\* Conversation.to_dict
Conversation_to_dict(c) ==
    [isdict |-> TRUE, keys |-> ConvKeys,
     title |-> c.title, conversation_id |-> c.conversation_id,
     created_at |-> c.created_at,
     messages |-> [i \in 1 .. Len(c.messages) |-> Message_to_dict(c.messages[i])]]

\* from_dict without `conv.created_at = data["created_at"]`
Conversation_from_dict_KeepsNow(d, now) ==
    [Conversation(d.title, d.conversation_id, now) EXCEPT
        !.messages = [i \in 1 .. Len(d.messages) |->
                         Message_from_dict(d.messages[i], now)]]

\* Conversation.from_dict
Conversation_from_dict(d, now) ==
    [Conversation(d.title, d.conversation_id, now) EXCEPT
        !.created_at = d.created_at,
        !.messages = [i \in 1 .. Len(d.messages) |->
                         Message_from_dict(d.messages[i], now)]]

\* The exception Message.from_dict raises on a decoded JSON value
MsgError(d) ==
    IF ~d.isdict THEN "TypeError"
    ELSE IF d.keys # MsgKeys THEN "KeyError"
    ELSE "none"

\* The first exception among the records of a list, in iteration order
FirstError(errs) ==
    IF \A i \in 1 .. Len(errs) : errs[i] = "none" THEN "none"
    ELSE errs[CHOOSE i \in 1 .. Len(errs) :
                 /\ errs[i] # "none"
                 /\ \A j \in 1 .. (i - 1) : errs[j] = "none"]

\* The exception Conversation.from_dict raises on a decoded JSON value
ConvError(d) ==
    IF ~d.isdict THEN "TypeError"
    ELSE IF d.keys # ConvKeys THEN "KeyError"
    ELSE FirstError([i \in 1 .. Len(d.messages) |-> MsgError(d.messages[i])])

----------------------------------------------------------------------------
(* The storage file *)

AbsentFile ==
    [kind |-> "absent", keys |-> {}, conversations |-> <<>>,
     next_conversation_id |-> 0]
\* text json.load rejects
GarbageFile == [AbsentFile EXCEPT !.kind = "garbage"]
\* valid JSON whose top-level value is not an object, e.g. []
NonObjectFile == [AbsentFile EXCEPT !.kind = "nonobject"]
ObjectFile(keys, convs, nid) ==
    [kind |-> "object", keys |-> keys, conversations |-> convs,
     next_conversation_id |-> nid]

\* ChatBoard.save_data: the content written
save_data(convs, nid) ==
    ObjectFile(TopKeys,
               [i \in 1 .. Len(convs) |-> Conversation_to_dict(convs[i])],
               nid)

\* ChatBoard.load_data, run on the fields __init__ has just set
\* (conversations = [], next_conversation_id = 1)
load_data(f, now) ==
    LET dconvs == IF "conversations" \in f.keys THEN f.conversations ELSE <<>>
        err == FirstError([i \in 1 .. Len(dconvs) |-> ConvError(dconvs[i])])
    IN
    IF f.kind = "absent" THEN
        [outcome |-> "absent", conversations |-> <<>>, next_conversation_id |-> 1]
    ELSE IF f.kind = "garbage" THEN
        [outcome |-> "fallback", conversations |-> <<>>, next_conversation_id |-> 1]
    ELSE IF f.kind = "nonobject" THEN
        [outcome |-> "raised", conversations |-> <<>>, next_conversation_id |-> 1]
    ELSE IF err = "KeyError" THEN
        [outcome |-> "fallback", conversations |-> <<>>, next_conversation_id |-> 1]
    ELSE IF err = "TypeError" THEN
        [outcome |-> "raised", conversations |-> <<>>, next_conversation_id |-> 1]
    ELSE
        [outcome |-> "loaded",
         conversations |-> [i \in 1 .. Len(dconvs) |->
                               Conversation_from_dict(dconvs[i], now)],
         next_conversation_id |->
             IF "next_conversation_id" \in f.keys
             THEN f.next_conversation_id ELSE 1]

----------------------------------------------------------------------------
(* Files a first run may find *)

DMsg(author, content, timestamp) ==
    [isdict |-> TRUE, keys |-> MsgKeys,
     author |-> author, content |-> content, timestamp |-> timestamp]
DConv(title, id, msgs) ==
    [isdict |-> TRUE, keys |-> ConvKeys, title |-> title,
     conversation_id |-> id, created_at |-> 1, messages |-> msgs]

InitFiles ==
    { AbsentFile, GarbageFile, NonObjectFile,
      ObjectFile({}, <<>>, 0),
      ObjectFile({"next_conversation_id"}, <<>>, 2),
      ObjectFile({"conversations"}, <<DConv("a", 1, <<>>)>>, 0),
      ObjectFile(TopKeys, <<DConv("a", 1, <<DMsg("alice", "hi", 1)>>)>>, 2),
      ObjectFile(TopKeys, <<DConv("a", 1, <<DMsg("alice", "hi", 0)>>)>>, 2),
      ObjectFile(TopKeys, <<DConv("a", 1, <<>>), DConv("b", 1, <<>>)>>, 2),
      ObjectFile(TopKeys,
                 <<[DConv("a", 1, <<>>) EXCEPT !.keys = ConvKeys \ {"created_at"}]>>, 2),
      ObjectFile(TopKeys, <<[DConv("a", 1, <<>>) EXCEPT !.isdict = FALSE]>>, 2),
      ObjectFile(TopKeys,
                 <<DConv("a", 1, <<[DMsg("alice", "hi", 1) EXCEPT
                                       !.keys = MsgKeys \ {"timestamp"}]>>)>>, 2),
      ObjectFile(TopKeys,
                 <<DConv("a", 1, <<[DMsg("alice", "hi", 1) EXCEPT
                                       !.isdict = FALSE]>>)>>, 2) }

----------------------------------------------------------------------------
(* The store *)

\* Values a call returns: None, True, False, or one of the held conversations,
\* named by its position in the list
ReturnNone == [val |-> "None", conv |-> 0]
ReturnBool(b) == [val |-> IF b THEN "True" ELSE "False", conv |-> 0]
ReturnConversation(i) == [val |-> "Conversation", conv |-> i]
\* list_conversations returns the list object self.conversations itself
ReturnList == [val |-> "conversations", conv |-> 0]

\* ChatBoard.__init__
ChatBoard(f, now) ==
    LET l == load_data(f, now) IN
    /\ conversations' = l.conversations
    /\ next_conversation_id' = l.next_conversation_id
    /\ current_user' = None
    /\ construction' = l.outcome

Init ==
    /\ file \in InitFiles
    /\ clock = 1
    /\ LET l == load_data(file, clock) IN
        /\ conversations = l.conversations
        /\ next_conversation_id = l.next_conversation_id
        /\ construction = l.outcome
    /\ current_user = None
    /\ ret = ReturnNone
    /\ issued = {}
    /\ written = FALSE

\* The store exists: __init__ did not raise
Constructed == construction # "raised"

\* the process ends and a new one constructs ChatBoard on the same file
Restart ==
    /\ ChatBoard(file, clock)
    /\ ret' = ReturnNone
    /\ UNCHANGED <<file, clock, issued, written>>

\* a second passes
Tick ==
    /\ clock + 1 \in Seconds
    /\ clock' = clock + 1
    /\ UNCHANGED <<file, conversations, next_conversation_id, current_user,
                   construction, ret, issued, written>>

\* ChatBoard.set_username
set_username(username) ==
    /\ Constructed
    /\ current_user' = username
    /\ ret' = ReturnNone
    /\ UNCHANGED <<file, conversations, next_conversation_id, construction,
                   clock, issued, written>>

\* the loop of get_conversation / delete_conversation: index of the first
\* conversation with that id, 0 when the loop ends without a match
FirstIndex(convs, conversation_id) ==
    IF \E i \in 1 .. Len(convs) : convs[i].conversation_id = conversation_id
    THEN CHOOSE i \in 1 .. Len(convs) :
            /\ convs[i].conversation_id = conversation_id
            /\ \A j \in 1 .. (i - 1) : convs[j].conversation_id # conversation_id
    ELSE 0

\* Pop with the slice bounds off by one: drops the element after i as well
Pop_DropsNext(s, i) == SubSeq(s, 1, i - 1) \o SubSeq(s, i + 2, Len(s))

\* list.pop(i), with i counted from 1
Pop(s, i) == SubSeq(s, 1, i - 1) \o SubSeq(s, i + 1, Len(s))

\* the test `self.current_user is not None` for the truth value
Truthy_NotNone(user) == user # None

\* truth value of current_user in `conversation and self.current_user`
Truthy(user) == user # None /\ user # ""

\* create_conversation without `self.next_conversation_id += 1`
create_conversation_NoIncrement(title) ==
    /\ Constructed
    /\ next_conversation_id <= MaxId
    /\ LET conversation == Conversation(title, next_conversation_id, clock) IN
        /\ next_conversation_id' = next_conversation_id
        /\ conversations' = Append(conversations, conversation)
        /\ file' = save_data(conversations', next_conversation_id')
        /\ written' = TRUE
        /\ ret' = ReturnConversation(Len(conversations'))
        /\ issued' = issued \cup {conversation.conversation_id}
    /\ UNCHANGED <<current_user, construction, clock>>

\* create_conversation that increments the counter before it builds the
\* conversation
create_conversation_IncrementFirst(title) ==
    /\ Constructed
    /\ next_conversation_id <= MaxId
    /\ next_conversation_id' = next_conversation_id + 1
    /\ LET conversation == Conversation(title, next_conversation_id', clock) IN
        /\ conversations' = Append(conversations, conversation)
        /\ file' = save_data(conversations', next_conversation_id')
        /\ written' = TRUE
        /\ ret' = ReturnConversation(Len(conversations'))
        /\ issued' = issued \cup {conversation.conversation_id}
    /\ UNCHANGED <<current_user, construction, clock>>

\* ChatBoard.create_conversation
create_conversation(title) ==
    /\ Constructed
    /\ next_conversation_id <= MaxId
    /\ LET conversation == Conversation(title, next_conversation_id, clock) IN
        /\ next_conversation_id' = next_conversation_id + 1
        /\ conversations' = Append(conversations, conversation)
        /\ file' = save_data(conversations', next_conversation_id')
        /\ written' = TRUE
        /\ ret' = ReturnConversation(Len(conversations'))
        /\ issued' = issued \cup {conversation.conversation_id}
    /\ UNCHANGED <<current_user, construction, clock>>

\* ChatBoard.get_conversation
get_conversation(conversation_id) ==
    /\ Constructed
    /\ LET i == FirstIndex(conversations, conversation_id) IN
        ret' = IF i # 0 THEN ReturnConversation(i) ELSE ReturnNone
    /\ UNCHANGED <<file, conversations, next_conversation_id, current_user,
                   construction, clock, issued, written>>

\* ChatBoard.list_conversations
list_conversations ==
    /\ Constructed
    /\ ret' = ReturnList
    /\ UNCHANGED <<file, conversations, next_conversation_id, current_user,
                   construction, clock, issued, written>>

\* delete_conversation without `self.save_data()`
delete_conversation_NoSave(conversation_id) ==
    /\ Constructed
    /\ LET i == FirstIndex(conversations, conversation_id) IN
        IF i # 0
        THEN /\ conversations' = Pop(conversations, i)
             /\ ret' = ReturnBool(TRUE)
             /\ UNCHANGED <<file, written>>
        ELSE /\ ret' = ReturnBool(FALSE)
             /\ UNCHANGED <<file, conversations, written>>
    /\ UNCHANGED <<next_conversation_id, current_user, construction, clock,
                   issued>>

\* ChatBoard.delete_conversation
delete_conversation(conversation_id) ==
    /\ Constructed
    /\ LET i == FirstIndex(conversations, conversation_id) IN
        IF i # 0
        THEN /\ conversations' = Pop(conversations, i)
             /\ file' = save_data(conversations', next_conversation_id)
             /\ written' = TRUE
             /\ ret' = ReturnBool(TRUE)
        ELSE /\ ret' = ReturnBool(FALSE)
             /\ UNCHANGED <<file, conversations, written>>
    /\ UNCHANGED <<next_conversation_id, current_user, construction, clock,
                   issued>>

RECURSIVE TotalMessages(_)
\* number of messages the store holds (bounds the exploration only)
TotalMessages(convs) ==
    IF convs = <<>> THEN 0
    ELSE Len(Head(convs).messages) + TotalMessages(Tail(convs))

\* post_message that tests current_user only after it has appended
post_message_AppendsFirst(conversation_id, content) ==
    /\ Constructed
    /\ LET i == FirstIndex(conversations, conversation_id) IN
        IF i # 0
        THEN /\ TotalMessages(conversations) < MaxMsgs
             /\ LET message == Message(current_user, content, 0, clock) IN
                  conversations' =
                      [conversations EXCEPT ![i] = add_message(@, message)]
             /\ IF Truthy(current_user)
                THEN /\ file' = save_data(conversations', next_conversation_id)
                     /\ written' = TRUE
                     /\ ret' = ReturnBool(TRUE)
                ELSE /\ ret' = ReturnBool(FALSE)
                     /\ UNCHANGED <<file, written>>
        ELSE /\ ret' = ReturnBool(FALSE)
             /\ UNCHANGED <<file, conversations, written>>
    /\ UNCHANGED <<next_conversation_id, current_user, construction, clock,
                   issued>>

\* ChatBoard.post_message
post_message(conversation_id, content) ==
    /\ Constructed
    /\ LET i == FirstIndex(conversations, conversation_id) IN
        IF i # 0 /\ Truthy(current_user)
        THEN /\ TotalMessages(conversations) < MaxMsgs
             /\ LET message == Message(current_user, content, 0, clock) IN
                  conversations' =
                      [conversations EXCEPT ![i] = add_message(@, message)]
             /\ file' = save_data(conversations', next_conversation_id)
             /\ written' = TRUE
             /\ ret' = ReturnBool(TRUE)
        ELSE /\ ret' = ReturnBool(FALSE)
             /\ UNCHANGED <<file, conversations, written>>
    /\ UNCHANGED <<next_conversation_id, current_user, construction, clock,
                   issued>>

Next ==
    \/ Restart
    \/ Tick
    \/ \E u \in Usernames : set_username(u)
    \/ \E t \in Titles : create_conversation(t)
    \/ \E id \in Ids : get_conversation(id)
    \/ list_conversations
    \/ \E id \in Ids : delete_conversation(id)
    \/ \E id \in Ids, c \in Contents : post_message(id, c)

Spec == Init /\ [][Next]_vars

----------------------------------------------------------------------------
(* Writes that fail.  In SpecIO open(..., 'w') or json.dump in save_data may
   raise OSError.  No method of ChatBoard and no caller up to main() catches
   it; main() reports it and the process ends, so the store is not called
   again and the next store is the one a new run constructs.  The calls that
   only read, get_conversation and list_conversations, touch neither the
   store nor the file and are explored in Spec. *)

\* an OSError raised out of the call
ReturnRaise == [val |-> "OSError", conv |-> 0]

\* the file after a save_data that raised: untouched when open() raised,
\* cut short (no longer JSON) when open() truncated it and the write raised
save_data_fails(f) == {f, GarbageFile}

\* no call has ended the process with an exception
Running == ret # ReturnRaise

\* create_conversation that calls save_data first and changes the store
\* only when the write went through
create_conversation_write_fails_SavesFirst(title) ==
    /\ ret' = ReturnRaise
    /\ Constructed
    /\ next_conversation_id <= MaxId
    /\ file' \in save_data_fails(file)
    /\ UNCHANGED <<conversations, next_conversation_id, current_user,
                   construction, clock, issued, written>>

\* ChatBoard.create_conversation when save_data raises
create_conversation_write_fails(title) ==
    /\ ret' = ReturnRaise
    /\ Constructed
    /\ next_conversation_id <= MaxId
    /\ LET conversation == Conversation(title, next_conversation_id, clock) IN
        /\ next_conversation_id' = next_conversation_id + 1
        /\ conversations' = Append(conversations, conversation)
    /\ file' \in save_data_fails(file)
    /\ UNCHANGED <<current_user, construction, clock, issued, written>>

\* ChatBoard.delete_conversation when save_data raises
delete_conversation_write_fails(conversation_id) ==
    /\ ret' = ReturnRaise
    /\ Constructed
    /\ LET i == FirstIndex(conversations, conversation_id) IN
        /\ i # 0
        /\ conversations' = Pop(conversations, i)
    /\ file' \in save_data_fails(file)
    /\ UNCHANGED <<next_conversation_id, current_user, construction, clock,
                   issued, written>>

\* ChatBoard.post_message when save_data raises
post_message_write_fails(conversation_id, content) ==
    /\ ret' = ReturnRaise
    /\ Constructed
    /\ LET i == FirstIndex(conversations, conversation_id) IN
        /\ i # 0
        /\ Truthy(current_user)
        /\ TotalMessages(conversations) < MaxMsgs
        /\ LET message == Message(current_user, content, 0, clock) IN
             conversations' =
                 [conversations EXCEPT ![i] = add_message(@, message)]
    /\ file' \in save_data_fails(file)
    /\ UNCHANGED <<next_conversation_id, current_user, construction, clock,
                   issued, written>>

NextIO ==
    \/ Restart
    \/ Tick
    \/ Running /\ \E u \in Usernames : set_username(u)
    \/ Running /\ \E t \in Titles : create_conversation(t)
    \/ Running /\ \E id \in Ids : delete_conversation(id)
    \/ Running /\ \E id \in Ids, c \in Contents : post_message(id, c)
    \/ Running /\ \E t \in Titles : create_conversation_write_fails(t)
    \/ Running /\ \E id \in Ids : delete_conversation_write_fails(id)
    \/ Running /\ \E id \in Ids, c \in Contents :
                      post_message_write_fails(id, c)

SpecIO == Init /\ [][NextIO]_vars
----------------------------------------------------------------------------
(* Claims *)

\* C1: the conversation_id create_conversation returns is greater than every
\* id an earlier create_conversation returned, whatever deletions came in
\* between; so no id is returned twice.  (Checked for every store of the
\* model, the one started from an absent file included.)
C1_IdsStrictlyIncreasing ==
    [][\A t \in Titles :
          create_conversation(t) =>
              /\ ret'.val = "Conversation"
              /\ \A j \in issued :
                    conversations'[ret'.conv].conversation_id > j]_vars

\* C1 witness: started from an absent file, id 1 was created and deleted and
\* the next create returned id 2
C1_Witness ==
    /\ construction = "absent"
    /\ issued = {1, 2}
    /\ Len(conversations) = 1
    /\ ret = ReturnConversation(1)
    /\ conversations[1].conversation_id = 2

\* C2 (as claimed): whenever a store exists, next_conversation_id is greater
\* than the id of every held conversation and than every id issued
C2_CounterAboveEveryId ==
    Constructed =>
        /\ \A i \in 1 .. Len(conversations) :
              next_conversation_id > conversations[i].conversation_id
        /\ \A j \in issued : next_conversation_id > j

\* C3: delete_conversation(id) with no held conversation of that id returns
\* False and leaves the list, the counter and the file alone; otherwise it
\* returns True, the counter is unchanged and the list is the old one with
\* one conversation of that id cut out, the others as they were and in order
C3_DeleteRemovesExactlyOne ==
    [][\A id \in Ids :
          delete_conversation(id) =>
              IF \A i \in 1 .. Len(conversations) :
                     conversations[i].conversation_id # id
              THEN /\ ret' = ReturnBool(FALSE)
                   /\ UNCHANGED <<conversations, next_conversation_id, file>>
              ELSE /\ ret' = ReturnBool(TRUE)
                   /\ next_conversation_id' = next_conversation_id
                   /\ Len(conversations') = Len(conversations) - 1
                   /\ \E k \in 1 .. Len(conversations) :
                         /\ conversations[k].conversation_id = id
                         /\ \A j \in 1 .. (k - 1) :
                               conversations'[j] = conversations[j]
                         /\ \A j \in k .. Len(conversations') :
                               conversations'[j] = conversations[j + 1]]_vars

\* C3 witness: a delete returned True (nobody can have posted: no user is
\* set) and left another conversation, which has a message, in the store
C3_Witness ==
    /\ ret = ReturnBool(TRUE)
    /\ current_user = None
    /\ Len(conversations) = 1
    /\ Len(conversations[1].messages) = 1

\* some held conversation has this id
Held(id) ==
    \E i \in 1 .. Len(conversations) : conversations[i].conversation_id = id

\* C4: a post_message that returns False leaves the list with all its
\* message lists, the counter, current_user and the file as they were
C4_FailedPostChangesNothing ==
    [][\A id \in Ids, c \in Contents :
          (post_message(id, c) /\ ret' = ReturnBool(FALSE)) =>
              UNCHANGED <<conversations, next_conversation_id,
                          current_user, file>>]_vars

\* C4 witness: a call returned False although every id a caller may name is
\* held (so it was no delete), a thread has a message, and no user is active
C4_Witness ==
    /\ ret = ReturnBool(FALSE)
    /\ \A id \in Ids : Held(id)
    /\ current_user = None
    /\ \E i \in 1 .. Len(conversations) : Len(conversations[i].messages) = 1

\* C5 (as claimed): post_message returns False exactly when no held
\* conversation has the id or set_username was never called
C5_FalseIffNoConversationOrUnset ==
    [][\A id \in Ids, c \in Contents :
          post_message(id, c) =>
              (ret' = ReturnBool(FALSE) <=> (~Held(id) \/ current_user = None))]_vars

\* C5 (amended): post_message returns False exactly when no held conversation
\* has the id or current_user is unset or the empty string; otherwise it
\* returns True and the first conversation with that id gets exactly one
\* message more, at the end, with author current_user and the content given
\* (empty content included), every other conversation staying as it was
C5_PostAppendsOne ==
    [][\A id \in Ids, c \in Contents :
          post_message(id, c) =>
              IF ~Held(id) \/ current_user = None \/ current_user = ""
              THEN /\ ret' = ReturnBool(FALSE)
                   /\ conversations' = conversations
              ELSE /\ ret' = ReturnBool(TRUE)
                   /\ Len(conversations') = Len(conversations)
                   /\ \E k \in 1 .. Len(conversations) :
                         /\ conversations[k].conversation_id = id
                         /\ \A j \in 1 .. (k - 1) :
                               conversations[j].conversation_id # id
                         /\ \A j \in 1 .. Len(conversations) :
                               j # k => conversations'[j] = conversations[j]
                         /\ LET old == conversations[k]
                                new == conversations'[k]
                                n == Len(old.messages)
                            IN /\ new.conversation_id = old.conversation_id
                               /\ new.title = old.title
                               /\ new.created_at = old.created_at
                               /\ Len(new.messages) = n + 1
                               /\ SubSeq(new.messages, 1, n) = old.messages
                               /\ new.messages[n + 1].author = current_user
                               /\ new.messages[n + 1].content = c]_vars

\* C5 witness: a post of empty content by alice went to the end of a thread
\* that already had a message
C5_Witness ==
    /\ ret = ReturnBool(TRUE)
    /\ current_user = "alice"
    /\ \E i \in 1 .. Len(conversations) :
          /\ Len(conversations[i].messages) = 2
          /\ conversations[i].messages[1].content = "hi"
          /\ conversations[i].messages[2].content = ""
          /\ conversations[i].messages[2].author = "alice"

\* the file, read at any time, yields the conversations and the counter the
\* store holds
InSync ==
    \A now \in Seconds :
        load_data(file, now) \in
            {[outcome |-> o, conversations |-> conversations,
              next_conversation_id |-> next_conversation_id] :
                 o \in {"absent", "fallback", "loaded"}}

C7_RoundTrip ==
    Constructed =>
        \A now \in Seconds :
            load_data(save_data(conversations, next_conversation_id), now)
                = [outcome |-> "loaded", conversations |-> conversations,
                   next_conversation_id |-> next_conversation_id]

\* C7 witness: at second 2 the store holds a thread begun at second 1 with a
\* message and a second thread, after a deletion
C7_Witness ==
    /\ clock = 2
    /\ Len(conversations) = 1
    /\ conversations[1].conversation_id = 2
    /\ conversations[1].created_at = 1
    /\ Len(conversations[1].messages) = 1
    /\ conversations[1].messages[1].timestamp = 1

\* the file does not have the documented structure
Malformed(f) ==
    \/ f.kind \in {"garbage", "nonobject"}
    \/ /\ f.kind = "object"
       /\ "conversations" \in f.keys
       /\ \E i \in 1 .. Len(f.conversations) : ConvError(f.conversations[i]) # "none"

\* C8 (as claimed): construction never raises; from an absent file it gives
\* no conversations and counter 1; while the file is malformed the store
\* has reported it and holds no conversations
C8_LoadNeverRaises ==
    /\ construction # "raised"
    /\ (file.kind = "absent" =>
           conversations = <<>> /\ next_conversation_id = 1)
    /\ (Malformed(file) => construction = "fallback" /\ conversations = <<>>)

\* C9: create_conversation(title) returns the conversation it appended; that
\* has the id the counter showed before the call, the title given and no
\* messages; the counter goes up by one; the conversations held before and
\* current_user stay as they were
C9_CreateAppendsOne ==
    [][\A t \in Titles :
          create_conversation(t) =>
              LET n == Len(conversations) IN
              /\ Len(conversations') = n + 1
              /\ SubSeq(conversations', 1, n) = conversations
              /\ ret' = ReturnConversation(n + 1)
              /\ conversations'[n + 1].conversation_id = next_conversation_id
              /\ conversations'[n + 1].title = t
              /\ conversations'[n + 1].messages = <<>>
              /\ next_conversation_id' = next_conversation_id + 1
              /\ current_user' = current_user]_vars

\* C9 witness: a second conversation was created behind one that has a
\* message, with a user active
C9_Witness ==
    /\ ret = ReturnConversation(2)
    /\ issued = {2}
    /\ Len(conversations) = 2
    /\ conversations[2].conversation_id = 2
    /\ conversations[2].messages = <<>>
    /\ Len(conversations[1].messages) = 1
    /\ next_conversation_id = 3
    /\ current_user = "alice"

IsPrefix(s, t) == Len(s) <= Len(t) /\ SubSeq(t, 1, Len(s)) = s

\* every conversation held before the step, but the one at position k (none
\* when k = 0), is held after it, in order, with its id, title and
\* created_at and with its old messages as a prefix of its messages
Survive(k) ==
    \A i \in (1 .. Len(conversations)) \ {k} :
        LET j == IF k # 0 /\ i > k THEN i - 1 ELSE i IN
        /\ j <= Len(conversations')
        /\ conversations'[j].conversation_id = conversations[i].conversation_id
        /\ conversations'[j].title = conversations[i].title
        /\ conversations'[j].created_at = conversations[i].created_at
        /\ IsPrefix(conversations[i].messages, conversations'[j].messages)

C11_IdsUnique ==
    Constructed =>
        \A i, j \in 1 .. Len(conversations) :
            conversations[i].conversation_id = conversations[j].conversation_id
                => i = j

\* C12: when the write of create_conversation, delete_conversation or
\* post_message fails, the call ends in the exception (no value is returned,
\* the write is not tried again), the store holds the change (the new
\* conversation and the counter one higher; the conversation cut out; the
\* message appended) and the file, untouched or cut short, does not hold the
\* state with the change
C12_MutateThenPersist ==
    [][/\ \A t \in Titles :
            create_conversation_write_fails(t) =>
                LET n == Len(conversations) IN
                /\ ret' = ReturnRaise
                /\ Len(conversations') = n + 1
                /\ SubSeq(conversations', 1, n) = conversations
                /\ conversations'[n + 1].conversation_id = next_conversation_id
                /\ conversations'[n + 1].title = t
                /\ next_conversation_id' = next_conversation_id + 1
                /\ file' # save_data(conversations', next_conversation_id')
       /\ \A id \in Ids :
            delete_conversation_write_fails(id) =>
                /\ ret' = ReturnRaise
                /\ Held(id)
                /\ Len(conversations') = Len(conversations) - 1
                /\ Survive(FirstIndex(conversations, id))
                /\ file' # save_data(conversations', next_conversation_id')
       /\ \A id \in Ids, c \in Contents :
            post_message_write_fails(id, c) =>
                /\ ret' = ReturnRaise
                /\ Len(conversations') = Len(conversations)
                /\ \E k \in 1 .. Len(conversations) :
                      LET old == conversations[k].messages
                          new == conversations'[k].messages
                      IN /\ conversations[k].conversation_id = id
                         /\ new = Append(old, [author |-> current_user,
                                               content |-> c,
                                               timestamp |-> clock])
                /\ file' # save_data(conversations', next_conversation_id')]_vars

\* C12 witness: a post ended in the exception; the thread in memory has the
\* message, the thread in the file has none
C12_Witness ==
    /\ ret = ReturnRaise
    /\ Len(conversations) = 1
    /\ Len(conversations[1].messages) = 1
    /\ file.kind = "object"
    /\ Len(file.conversations) = 1
    /\ Len(file.conversations[1].messages) = 0

====
